---- MODULE Spec2Model ----
(***************************************************************************)
(* Model of python/google_api.py: the polyline codec (decode_polyline,     *)
(* encode_coords, _encode_value, _split_into_chunks) and the extraction    *)
(* helper get_directions_polylines.                                        *)
(*                                                                         *)
(* Representation.  A string is a sequence of character codes (ord).  A    *)
(* coordinate value is a Python float; the floats that occur are the       *)
(* doubles nearest n/100000 for an integer n, and such a double is denoted *)
(* by its numerator n.  Python integers are unbounded, so no width is      *)
(* modelled; every value the model reaches stays far below 2^31.           *)
(***************************************************************************)
EXTENDS Integers, Sequences, FiniteSets, TLC

VARIABLES
    stage,              \* which call of the run is active
    \* what each function returned: <<>> while nothing, <<v>> once v was
    enc_returned, dec_returned, dir_returned,
    \* encode_coords
    coords, e_i, prev_lat, prev_lng, enc_result, e_r, out, e_pc,
    \* decode_polyline
    polyline_str, index, lat, lng, coordinates, changes, unit, shift, result,
    d_pc,
    \* get_directions_polylines
    directions_result, g_i, polylines, g_pc

encVars == <<coords, e_i, prev_lat, prev_lng, enc_result, e_r, out, e_pc,
             enc_returned>>
decVars == <<polyline_str, index, lat, lng, coordinates, changes, unit, shift,
             result, d_pc, dec_returned>>
dirVars == <<directions_result, g_i, polylines, g_pc, dir_returned>>
vars == <<stage, encVars, decVars, dirVars>>

----------------------------------------------------------------------------
(* Bounds of the model *)

\* longest coordinate sequence given to encode_coords
MaxCoords == 2
\* longest text given directly to decode_polyline
MaxTextLen == 4
\* longest directions response
MaxRoutes == 3

\* Coordinate values (numerators n of n/100000) the inputs are drawn from:
\* negative and positive, one chunk and two chunks long, and values whose
\* product with 1e5 falls below n in binary floating point.
CoordVals == {-17, -7, 0, 15}

\* Character codes the given texts are drawn from: below the chunk range
\* (33), plain chunks (63, 64), continuation chunks (95, 96) and above the
\* chunk range (127).
Alphabet == {33, 63, 64, 95, 96, 127}

\* The reference polyline test case, as numerators and as character codes.
KnownVector ==
    << <<3850000, -12020000>>, <<4070000, -12095000>>, <<4325200, -12645300>> >>
KnownText ==
    <<95, 112, 126, 105, 70, 126, 112, 115, 124, 85, 95, 117, 108, 76, 110,
      110, 113, 67, 95, 109, 113, 78, 118, 120, 113, 96, 64>>

SeqsUpTo(S, n) == UNION {[1..m -> S] : m \in 0..n}

CoordInputs == SeqsUpTo(CoordVals \X CoordVals, MaxCoords) \cup {KnownVector}
TextInputs == SeqsUpTo(Alphabet, MaxTextLen) \cup {KnownText}

\* A route of a directions response: a dict that has the key
\* 'overview_polyline' (with its 'points' string) or lacks it.
Absent == "<absent>"
None == "<None>"
Points == {"_p~iF~ps|U", "??"}
Routes == [overview_polyline : Points \cup {Absent}]
DirectionInputs == SeqsUpTo(Routes, MaxRoutes)

----------------------------------------------------------------------------
(* Pure pieces of the codec *)

RECURSIVE FloorLog2(_)
FloorLog2(n) == IF n < 2 THEN 0 ELSE 1 + FloorLog2(n \div 2)

RECURSIVE DoubleMod(_, _)
\* (r * 2^n) mod 100000 for 0 <= r < 100000, fourteen doublings at a time
\* (r * 2^14 stays below 2^31)
DoubleMod(r, n) ==
    IF n = 0 THEN r
    ELSE IF n >= 14 THEN DoubleMod((r * 16384) % 100000, n - 14)
    ELSE DoubleMod((r * 2^n) % 100000, 0)

\* int(x * 1e5) for the double x nearest n/100000, n > 0.  x is
\* q / 2^s with q the 53-bit integer nearest n*2^s/100000, so the exact
\* product x*100000 is n + d/2^s, where d = -rem or 100000 - rem and rem is
\* (n*2^s) mod 100000.  The product is then rounded to a double; it falls
\* below n exactly when -d exceeds half the spacing of doubles below n, which
\* is 2^15 in units of 2^-s when n/2^e >= 100000/2^16 (s = 68 - e) or n = 2^e,
\* and more than |d| can be otherwise.  int() then truncates to n - 1.
MulTruncPos(n) ==
    LET e == FloorLog2(n)
        big == IF e >= 16 THEN n >= 100000 * 2^(e - 16)
                          ELSE n * 2^(16 - e) >= 100000
        s == IF big THEN 68 - e ELSE 69 - e
        rem == DoubleMod(n % 100000, s)
        lossy == rem > 32768 /\ rem < 50000 /\ (big \/ n = 2^e)
    IN  IF lossy THEN n - 1 ELSE n

\* lat, lng = int(y * 1e5), int(x * 1e5): multiply the float, truncate to 0
ScaleUp(n) ==
    IF n = 0 THEN 0 ELSE IF n > 0 THEN MulTruncPos(n) ELSE -MulTruncPos(-n)

\* lat / 100000.0: float division is correctly rounded, so the quotient is
\* the double nearest v/100000, the double that numerator v denotes
ScaleDown(v) == v

\* a fold that forgets the complement of the negative branch
EncodeFoldNoComplement(value) == 2 * value

\* value = ~(value << 1) if value < 0 else (value << 1)
EncodeFold(value) == IF value < 0 THEN -(2 * value) - 1 ELSE 2 * value

\* a chunk that never carries the continuation bit
ChunkOfNoContinuation(value) == value % 32

\* what the generator yields for value: (value & 31) | 0x20, or value
ChunkOf(value) == IF value >= 32 THEN (value % 32) + 32 ELSE value

\* a chunking loop that forgets to shift the value
ShiftOfNone(value) == value

\* value >>= 5
ShiftOf(value) == value \div 32

\* chr(chunk + 63), as a character code
EncodeChar(chunk) == chunk + 63

\* the two appends in the other order
AppendedLatFirst(d_lat, d_lng) == <<d_lat, d_lng>>

\* result.append(d_lng); result.append(d_lat)
Appended(d_lat, d_lng) == <<d_lng, d_lat>>

\* byte = ord(polyline_str[index]) - 63
ByteOf(code) == code - 63

\* (byte & 0x1f) << shift; Python's & on a negative int is two's complement
Payload(byte, sh) == (byte % 32) * 2^sh

\* a continuation test that looks at bit 5 of a six-bit chunk only
ContinuesSixBit(byte) == byte >= 32 /\ byte < 64

\* the loop goes on unless "not byte >= 0x20"
Continues(byte) == byte >= 32

\* ~(result >> 1) if result & 1 else (result >> 1)
Unfold(res) == IF res % 2 = 1 THEN -(res \div 2) - 1 ELSE res \div 2

\* a coordinate appended as [lng, lat]
NewCoordinateSwapped(la, ln) == <<ScaleDown(ln), ScaleDown(la)>>

\* coordinates.append([lat / 100000.0, lng / 100000.0])
NewCoordinate(la, ln) == <<ScaleDown(la), ScaleDown(ln)>>

----------------------------------------------------------------------------
(* Idle values of the three functions' locals *)

EncIdle ==
    /\ coords = <<>> /\ e_i = 0 /\ prev_lat = 0 /\ prev_lng = 0
    /\ enc_result = <<>> /\ e_r = 0 /\ out = <<>> /\ e_pc = "idle"
    /\ enc_returned = <<>>

DecIdle ==
    /\ polyline_str = <<>> /\ index = 0 /\ lat = 0 /\ lng = 0
    /\ coordinates = <<>> /\ changes = [latitude |-> 0, longitude |-> 0]
    /\ unit = "latitude" /\ shift = 0 /\ result = 0 /\ d_pc = "idle"
    /\ dec_returned = <<>>

DirIdle ==
    /\ directions_result = <<>> /\ g_i = 0 /\ polylines = <<>>
    /\ g_pc = "idle" /\ dir_returned = <<>>

\* encode_coords(c): result = [], prev_lat = 0, prev_lng = 0
EncEntry(c) ==
    /\ coords' = c /\ e_i' = 0 /\ prev_lat' = 0 /\ prev_lng' = 0
    /\ enc_result' = <<>> /\ e_r' = 0 /\ out' = <<>> /\ e_pc' = "for"
    /\ enc_returned' = <<>>

\* decode_polyline(s): index, lat, lng = 0, 0, 0; coordinates = [];
\* changes = {'latitude': 0, 'longitude': 0}
DecEntry(s) ==
    /\ polyline_str' = s /\ index' = 0 /\ lat' = 0 /\ lng' = 0
    /\ coordinates' = <<>> /\ changes' = [latitude |-> 0, longitude |-> 0]
    /\ unit' = "latitude" /\ shift' = 0 /\ result' = 0 /\ d_pc' = "while"
    /\ dec_returned' = <<>>

----------------------------------------------------------------------------
(* encode_coords *)

\* one iteration of "for x, y in coords": the two generators are created
\* (the fold of _encode_value runs now, the chunking runs in the join)
EncodeFor ==
    /\ e_pc = "for"
    /\ e_i < Len(coords)
    /\ LET x == coords[e_i + 1][1]
           y == coords[e_i + 1][2]
           la == ScaleUp(y)
           ln == ScaleUp(x)
           d_lat == EncodeFold(la - prev_lat)
           d_lng == EncodeFold(ln - prev_lng)
       IN  /\ prev_lat' = la
           /\ prev_lng' = ln
           /\ enc_result' = enc_result \o Appended(d_lat, d_lng)
    /\ e_i' = e_i + 1
    /\ UNCHANGED <<stage, coords, e_r, out, e_pc, enc_returned, decVars,
                   dirVars>>

\* the for loop is exhausted: ''.join(c for r in result for c in r) starts
EncodeJoinStart ==
    /\ e_pc = "for"
    /\ e_i = Len(coords)
    /\ e_pc' = "join"
    /\ e_r' = 1
    /\ UNCHANGED <<stage, coords, e_i, prev_lat, prev_lng, enc_result, out,
                   enc_returned, decVars, dirVars>>

\* the join takes the next character of generator e_r: _split_into_chunks
\* runs to its next yield and _encode_value maps the chunk to a character
EncodeChunk ==
    /\ e_pc = "join"
    /\ e_r <= Len(enc_result)
    /\ LET value == enc_result[e_r]
       IN  /\ out' = Append(out, EncodeChar(ChunkOf(value)))
           /\ IF value >= 32
                 THEN /\ enc_result' = [enc_result EXCEPT ![e_r] = ShiftOf(value)]
                      /\ e_r' = e_r
                 ELSE /\ enc_result' = enc_result
                      /\ e_r' = e_r + 1
    /\ UNCHANGED <<stage, coords, e_i, prev_lat, prev_lng, e_pc, enc_returned,
                   decVars, dirVars>>

\* every generator is exhausted: the joined string is returned
EncodeReturn ==
    /\ e_pc = "join"
    /\ e_r > Len(enc_result)
    /\ e_pc' = "done"
    /\ enc_returned' = <<out>>
    /\ UNCHANGED <<stage, coords, e_i, prev_lat, prev_lng, enc_result, e_r,
                   out, decVars, dirVars>>

----------------------------------------------------------------------------
(* decode_polyline *)

\* while index < len(polyline_str): enter the for loop, or return
DecodeWhile ==
    /\ d_pc = "while"
    /\ IF index < Len(polyline_str)
          THEN /\ d_pc' = "read"
               /\ unit' = "latitude"
               /\ shift' = 0
               /\ result' = 0
               /\ dec_returned' = dec_returned
          ELSE /\ d_pc' = "done"
               /\ dec_returned' = <<coordinates>>
               /\ UNCHANGED <<unit, shift, result>>
    /\ UNCHANGED <<stage, polyline_str, index, lat, lng, coordinates, changes,
                   encVars, dirVars>>

\* one iteration of "while True": polyline_str[index] raises IndexError when
\* index is not below the length (nothing handles it: the call fails);
\* otherwise the character is read and folded into result
DecodeRead ==
    /\ d_pc = "read"
    /\ IF index >= Len(polyline_str)
          THEN /\ d_pc' = "error"
               /\ UNCHANGED <<index, lat, lng, coordinates, changes, unit,
                              shift, result>>
          ELSE LET byte == ByteOf(polyline_str[index + 1])
                   res == result + Payload(byte, shift)
               IN  /\ index' = index + 1
                   /\ IF Continues(byte)
                         THEN /\ result' = res
                              /\ shift' = shift + 5
                              /\ UNCHANGED <<lat, lng, coordinates, changes,
                                             unit, d_pc>>
                         ELSE /\ changes' = [changes EXCEPT ![unit] = Unfold(res)]
                              /\ IF unit = "latitude"
                                    THEN /\ unit' = "longitude"
                                         /\ shift' = 0
                                         /\ result' = 0
                                         /\ UNCHANGED <<lat, lng, coordinates,
                                                        d_pc>>
                                    ELSE /\ lat' = lat + changes'.latitude
                                         /\ lng' = lng + changes'.longitude
                                         /\ coordinates' =
                                               Append(coordinates,
                                                      NewCoordinate(lat', lng'))
                                         /\ result' = res
                                         /\ shift' = shift + 5
                                         /\ unit' = unit
                                         /\ d_pc' = "while"
    /\ UNCHANGED <<stage, dec_returned, polyline_str, encVars, dirVars>>

----------------------------------------------------------------------------
(* get_directions_polylines *)

\* "if len(directions_result) > 0: for direction in directions_result":
\* one iteration; the else branch names the undefined variable polyline
DirectionsFor ==
    /\ g_pc = "for"
    /\ g_i < Len(directions_result)
    /\ LET direction == directions_result[g_i + 1]
       IN  IF direction.overview_polyline # Absent
              THEN /\ polylines' = Append(polylines, direction.overview_polyline)
                   /\ g_i' = g_i + 1
                   /\ g_pc' = g_pc
              ELSE /\ g_pc' = "error"
                   /\ UNCHANGED <<polylines, g_i>>
    /\ UNCHANGED <<stage, dir_returned, directions_result, encVars, decVars>>

\* return polylines
DirectionsReturn ==
    /\ g_pc = "for"
    /\ g_i = Len(directions_result)
    /\ g_pc' = "done"
    /\ dir_returned' = <<polylines>>
    /\ UNCHANGED <<stage, directions_result, g_i, polylines, encVars, decVars>>

----------------------------------------------------------------------------
(* The calls of a run *)

\* the string encode_coords returned is given to decode_polyline
CallDecodeOfEncoded ==
    /\ stage = "encode"
    /\ e_pc = "done"
    /\ stage' = "decode"
    /\ DecEntry(out)
    /\ UNCHANGED <<encVars, dirVars>>

\* the coordinates decode_polyline returned are given to encode_coords
CallEncodeOfDecoded ==
    /\ stage = "decode"
    /\ d_pc = "done"
    /\ stage' = "reencode"
    /\ EncEntry(coordinates)
    /\ UNCHANGED <<decVars, dirVars>>

\* A run starts with a call of encode_coords, of decode_polyline or of
\* get_directions_polylines.
Init ==
    /\ \/ /\ stage = "encode"
          /\ coords \in CoordInputs
          /\ e_i = 0 /\ prev_lat = 0 /\ prev_lng = 0
          /\ enc_result = <<>> /\ e_r = 0 /\ out = <<>> /\ e_pc = "for"
          /\ enc_returned = <<>>
          /\ DecIdle /\ DirIdle
       \/ /\ stage = "given"
          /\ polyline_str \in TextInputs
          /\ index = 0 /\ lat = 0 /\ lng = 0
          /\ coordinates = <<>>
          /\ changes = [latitude |-> 0, longitude |-> 0]
          /\ unit = "latitude" /\ shift = 0 /\ result = 0 /\ d_pc = "while"
          /\ dec_returned = <<>>
          /\ EncIdle /\ DirIdle
       \/ /\ stage = "directions"
          /\ directions_result \in DirectionInputs
          /\ g_i = 0 /\ polylines = <<>> /\ g_pc = "for"
          /\ dir_returned = <<>>
          /\ EncIdle /\ DecIdle

Next ==
    \/ EncodeFor
    \/ EncodeJoinStart
    \/ EncodeChunk
    \/ EncodeReturn
    \/ DecodeWhile
    \/ DecodeRead
    \/ DirectionsFor
    \/ DirectionsReturn
    \/ CallDecodeOfEncoded
    \/ CallEncodeOfDecoded

Spec == Init /\ [][Next]_vars

\* Every call runs on its own thread of control to its return or its
\* exception: a step that can be taken is taken.
SpecLive == Spec /\ WF_vars(Next)

----------------------------------------------------------------------------
(* Properties *)

DecodeCalled == stage \in {"given", "decode"}
DecodeEnded == d_pc \in {"done", "error"}

\* the text ends in a character with the continuation bit set
EndsMidInteger(s) == Len(s) > 0 /\ s[Len(s)] - 63 >= 32

\* C1: round trip.  When decode_polyline ends on the text encode_coords
\* returned for a sequence of 5-decimal coordinates, it has returned that
\* sequence: same length, same latitude and longitude at every position.
C1_RoundTrip ==
    (stage = "decode" /\ DecodeEnded) =>
        /\ d_pc = "done"
        /\ dec_returned = <<coords>>

\* C2: stability.  When encode_coords ends on the coordinates decode_polyline
\* returned for an encoder-produced text, it has returned that text; and the
\* encoder writes one chunk sequence per delta: no zero final chunk after a
\* continuation chunk, and no continuation bit on the last chunk.
C2_Stability ==
    /\ (stage = "reencode" /\ e_pc = "done") => enc_returned = <<polyline_str>>
    /\ \A i \in 2..Len(out) : out[i - 1] - 63 >= 32 => out[i] - 63 # 0
    /\ (e_pc = "done" /\ Len(out) > 0) => out[Len(out)] - 63 < 32

\* C3: the reference vector.  encode_coords returns KnownText for
\* KnownVector, and decode_polyline returns KnownVector for KnownText.
C3_KnownVector ==
    /\ (stage = "encode" /\ coords = KnownVector /\ e_pc = "done") =>
           enc_returned = <<KnownText>>
    /\ (DecodeCalled /\ polyline_str = KnownText /\ DecodeEnded) =>
           (d_pc = "done" /\ dec_returned = <<KnownVector>>)

C3_Witness ==
    /\ stage = "decode" /\ coords = KnownVector /\ polyline_str = KnownText
    /\ d_pc = "done" /\ dec_returned = <<KnownVector>>

\* C4: a text whose last character carries the continuation bit never makes
\* decode_polyline return: the call ends in the error state with nothing
\* returned (not the coordinates of a well-formed prefix), and the cursor
\* never passes the length of the text.
C4_TruncatedRejected ==
    /\ index <= Len(polyline_str)
    /\ (DecodeCalled /\ EndsMidInteger(polyline_str)) =>
           /\ d_pc # "done"
           /\ dec_returned = <<>>
           /\ DecodeEnded => (d_pc = "error" /\ index = Len(polyline_str))

\* a well-formed coordinate followed by a truncated integer
C4_Witness ==
    /\ stage = "given" /\ EndsMidInteger(polyline_str)
    /\ d_pc = "error" /\ Len(coordinates) > 0 /\ dec_returned = <<>>

\* C5: once decode_polyline has read a character whose code minus 63 is
\* outside 0..63, it does not return coordinates.
C5_OutOfDomainRejected ==
    (DecodeCalled /\ \E i \in 1..index : polyline_str[i] \notin 63..126) =>
        (d_pc # "done" /\ dec_returned = <<>>)

RECURSIVE CharsOf(_)
\* the characters of the polyline format for a folded value v >= 0: five
\* bits at a time, least significant first, 0x20 set on all but the last
CharsOf(v) ==
    IF v >= 32 THEN <<(v % 32) + 32 + 63>> \o CharsOf(v \div 32)
    ELSE <<v + 63>>

\* the sign fold of the polyline format
FoldOf(d) == IF d < 0 THEN -(2 * d) - 1 ELSE 2 * d

\* the delta of coordinate i of c on an axis (1: latitude, 2: longitude),
\* against the scaled integer of coordinate i - 1 (0 before the first)
DeltaOf(c, i, axis) ==
    ScaleUp(c[i][axis]) - (IF i = 1 THEN 0 ELSE ScaleUp(c[i - 1][axis]))

RECURSIVE TextOf(_, _, _, _)
\* the text of coordinates 1..n of c, the delta of axis a1 before that of a2
TextOf(c, n, a1, a2) ==
    IF n = 0 THEN <<>>
    ELSE TextOf(c, n - 1, a1, a2)
             \o CharsOf(FoldOf(DeltaOf(c, n, a1)))
             \o CharsOf(FoldOf(DeltaOf(c, n, a2)))

\* the running previous values hold the absolute scaled integers of the
\* coordinate processed last (prev_lat those of the second component,
\* prev_lng those of the first), not its deltas
PrevAreAbsolute ==
    (e_pc \in {"for", "join", "done"} /\ e_i > 0) =>
        /\ prev_lng = ScaleUp(coords[e_i][1])
        /\ prev_lat = ScaleUp(coords[e_i][2])

\* C6: as claimed, encode_coords writes, for each (latitude, longitude)
\* coordinate in input order, the longitude delta's characters before the
\* latitude delta's, with the previous values kept as absolute integers.
C6_LngBeforeLat ==
    /\ PrevAreAbsolute
    /\ e_pc = "done" => enc_returned = <<TextOf(coords, Len(coords), 2, 1)>>

\* C6 amended: encode_coords writes, for each (latitude, longitude)
\* coordinate in input order, the latitude delta's characters before the
\* longitude delta's, with the previous values kept as absolute integers.
C6_LatBeforeLng ==
    /\ PrevAreAbsolute
    /\ e_pc = "done" => enc_returned = <<TextOf(coords, Len(coords), 1, 2)>>

\* two coordinates whose latitude and longitude deltas differ
C6_Witness ==
    /\ stage = "encode" /\ e_pc = "done" /\ Len(coords) = 2
    /\ DeltaOf(coords, 1, 1) # DeltaOf(coords, 1, 2)
    /\ DeltaOf(coords, 2, 1) # DeltaOf(coords, 2, 2)
    /\ DeltaOf(coords, 2, 1) # ScaleUp(coords[2][1])

\* C8: every character encode_coords writes has a code in 63..126 (every
\* pending value is non-negative, so every chunk is in 0..63), and the empty
\* sequence yields the empty string.
C8_PrintableOutput ==
    /\ \A i \in 1..Len(out) : out[i] \in 63..126
    /\ \A i \in 1..Len(enc_result) : enc_result[i] >= 0
    /\ (e_pc = "done" /\ coords = <<>>) => enc_returned = << <<>> >>

\* a negative delta of two chunks was written
C8_Witness ==
    /\ stage = "encode" /\ e_pc = "done" /\ Len(coords) > 0
    /\ \E i \in 1..Len(coords) : DeltaOf(coords, i, 1) < -16

\* C10: get_directions_polylines never fails, and returns one entry per
\* route in route order: the overview polyline, or None where there is none.
C10_OnePerRoute ==
    stage = "directions" =>
        /\ g_pc # "error"
        /\ g_pc = "done" =>
               dir_returned =
                   << [i \in 1..Len(directions_result) |->
                         IF directions_result[i].overview_polyline = Absent
                            THEN None
                            ELSE directions_result[i].overview_polyline] >>

\* what a step of decode_polyline does to its state, for C7
C7_Step ==
    /\ (d_pc = "while" /\ d_pc' = "read") => unit' = "latitude"
    /\ (d_pc = "read" /\ index' = index + 1) =>
           IF polyline_str[index'] - 63 >= 32
              THEN d_pc' = "read" /\ unit' = unit /\ coordinates' = coordinates
              ELSE IF unit = "latitude"
                      THEN /\ d_pc' = "read" /\ unit' = "longitude"
                           /\ coordinates' = coordinates
                           /\ lat' = lat /\ lng' = lng
                      ELSE /\ d_pc' = "while"
                           /\ lat' = lat + changes'.latitude
                           /\ lng' = lng + changes'.longitude
                           /\ coordinates' = Append(coordinates, <<lat', lng'>>)
    /\ coordinates' # coordinates =>
           (d_pc = "read" /\ unit = "longitude" /\ d_pc' = "while")
    /\ (d_pc = "read" /\ index = Len(polyline_str)) => d_pc' = "error"
    /\ (d_pc' = "done" /\ d_pc # "done") =>
           (d_pc = "while" /\ dec_returned' = <<coordinates>>)
    /\ DecodeEnded => d_pc' = d_pc

\* what holds once decode_polyline has returned, for C7
C7_Done ==
    d_pc = "done" =>
        /\ index = Len(polyline_str)
        /\ dec_returned = <<coordinates>>
        /\ Cardinality({i \in 1..Len(polyline_str) : polyline_str[i] - 63 < 32})
               = 2 * Len(coordinates)
        /\ IF Len(polyline_str) = 0
              THEN coordinates = <<>>
              ELSE unit = "longitude"
                   /\ polyline_str[Len(polyline_str)] - 63 < 32

\* C7: decode_polyline reads latitude chunks and longitude chunks in turn,
\* switching exactly on a chunk without the continuation bit; it appends a
\* coordinate only when a longitude delta ends, made of the running sums;
\* and it returns only with the input exhausted right after a longitude
\* delta, or on the empty input (then the empty sequence), so a text with a
\* latitude delta and no longitude delta never makes it return.
C7_DecodeStateMachine == [][C7_Step]_vars /\ []C7_Done

\* two coordinates were decoded from a given text
C7_Witness ==
    stage = "given" /\ d_pc = "done" /\ Len(coordinates) = 2

\* C9: termination.  The cursor of decode_polyline moves by exactly one per
\* character read and never passes the length of the text, and every call
\* of decode_polyline ends (returns or fails); the value of the chunking
\* loop stays non-negative and strictly shrinks on each continuation chunk,
\* the chunk that ends a delta carries no continuation bit, and every call
\* of encode_coords returns.
C9_Termination ==
    /\ [](index <= Len(polyline_str))
    /\ [][index' # index => (index' = index + 1 /\ d_pc = "read")]_vars
    /\ [][(e_pc = "join" /\ out' # out /\ e_r' = e_r) =>
              (enc_result'[e_r] >= 0 /\ enc_result'[e_r] < enc_result[e_r])]_vars
    /\ [][(e_pc = "join" /\ out' # out /\ e_r' # e_r) =>
              (e_r' = e_r + 1 /\ out'[Len(out')] - 63 < 32)]_vars
    /\ (d_pc \in {"while", "read"}) ~> DecodeEnded
    /\ (e_pc \in {"for", "join"}) ~> (e_pc = "done")

\* a text with a delta of several chunks was written and then decoded
C9_Witness ==
    /\ stage = "decode" /\ d_pc = "done" /\ Len(coords) > 0
    /\ Len(polyline_str) > 2 * Len(coords)

====
